---- MODULE Spec2Model ----
(***************************************************************************)
(* Job orchestration core of InfraAnsible: the Job rows, the JobService    *)
(* operations that change them (create_job, update_job_status, cancel_job) *)
(* and the audit log they write, the two HTTP routes that dispatch to and   *)
(* revoke from the Celery worker pool, and the job_logs table.             *)
(*                                                                         *)
(* The specifications share the variables:                                 *)
(*   Spec      every service call runs to completion before the next one   *)
(*             starts (one request at a time);                             *)
(*   SpecConc  two request handlers / worker callbacks, each with its own  *)
(*             SQLAlchemy session: a call is a SELECT of the row           *)
(*             (Job.query.get) followed later by the UPDATE of the columns *)
(*             it modified (db.session.commit), and calls interleave;      *)
(*   SpecRoute the POST /jobs and POST /jobs/<id>/cancel routes, one       *)
(*             request at a time, each a sequence of service calls and     *)
(*             broker calls, any of which may raise;                       *)
(*   SpecLogs  the job_logs table: add_job_log, add_job_logs_bulk and      *)
(*             get_job_logs;                                               *)
(*   SpecDispatch  the routes of SpecRoute with the execution worker's     *)
(*             status callbacks beside them (SpecDispatchFair: every       *)
(*             request is handled to its end, every task is run);          *)
(*   SpecStore the service calls of two users, one at a time, with         *)
(*             create_ticket_from_job and get_job_statistics;              *)
(*   SpecCascade  the store under hard_delete_playbook and the deletion of *)
(*             a user.                                                     *)
(***************************************************************************)
EXTENDS Integers, Sequences, FiniteSets, TLC

\* ------------------------------------------------------------- bounds
MaxJobs  == 2      \* job rows ever created
MaxClock == 2      \* largest value of the wall clock
MaxCalls == 3      \* JobService calls on jobs made in one behaviour
MaxLogs  == 2      \* rows ever inserted into job_logs
MaxLine  == 2      \* largest line_number, start_line or limit a caller passes
MaxTickets == 2    \* rows ever inserted into tickets

\* ---------------------------------------------------------- constants
NULL    == "NULL"  \* None in a text column / argument
NULL_TS == 0       \* None in a DateTime column
NONE    == -1      \* None as an integer argument (start_line=None, limit=None)

Statuses == {"pending", "running", "success", "failed", "cancelled"}
Terminal == {"success", "failed", "cancelled"}
CANCEL_MARKER == "Job cancelled by user"

PlaybookIds == {1}
ServerIds   == {1}
UserIds     == {1}
Principals  == {1, 2}   \* the users table: UserIds and one more user
MissingId   == CHOOSE i \in 1..9 : i \notin PlaybookIds \cup ServerIds   \* an id no row has
UUIDs       == {"u1", "u2", "u3"}
JobIds      == 1..MaxJobs
ErrorMessages == {NULL, "err"}
TaskIds       == {NULL, "w-1", "w-2"}
Handlers == {1, 2}      \* concurrent request handlers / worker callbacks
LineNumbers == 0..MaxLine
Contents    == {"line"}

VARIABLES
  jobs,        \* jobs table: id -> row
  playbooks,   \* playbooks table: id -> [is_active]
  servers,     \* servers table: id -> [is_active]
  audit,       \* audit_logs table, in insertion order
  clock,       \* datetime.utcnow()
  sess,        \* per handler: its session's loaded Job object and the call in progress
  raised,      \* what the last JobService call raised (NULL: it returned)
  calls,       \* JobService calls on jobs made so far
  hist,        \* history, per job: the statuses its row has held, and the
               \* status its row held when a cancel_job last committed on it
  done,        \* history: the call that committed last, while no call has
               \* started or raised since (None otherwise)
  route,       \* the HTTP request in progress: where its view function is,
               \* the job and task it holds, and the last response's status code
  broker,      \* messages published to the Celery broker, in order
  logs,        \* job_logs table, in insertion order (the index is JobLog.id)
  result,      \* what the last get_job_logs call was given and returned
  tickets,     \* tickets table, in insertion order
  stats,       \* what the last get_job_statistics call was given and returned
  users,       \* ids of the rows of the users table
  deleted      \* ids of the jobs rows that were deleted (ids are never reused:
               \* jobs keeps the row an id was given to)

vars == <<jobs, playbooks, servers, audit, clock, sess, raised, calls, hist, done,
          route, broker, logs, result, tickets, stats, users, deleted>>

\* The tables and results only the ticket, statistics and delete operations touch.
side == <<tickets, stats, users, deleted>>

\* The variables the JobService calls on jobs do not touch.
api == <<route, broker, logs, result, side>>

None == [op |-> "none"]

Idle   == [pc |-> "idle"]

NoRequest == [pc |-> "idle", job |-> 0, task |-> NULL, response |-> 0]

NoResult == [job_id |-> 0, start_line |-> NONE, limit |-> NONE, rows |-> <<>>]

Init ==
  /\ jobs = <<>>
  /\ playbooks = [p \in PlaybookIds |-> [is_active |-> TRUE]]
  /\ servers = [s \in ServerIds |-> [is_active |-> TRUE]]
  /\ audit = <<>>
  /\ clock = 1
  /\ sess = [p \in Handlers |-> Idle]
  /\ raised = NULL
  /\ calls = 0
  /\ hist = <<>>
  /\ done = None
  /\ route = NoRequest
  /\ broker = <<>>
  /\ logs = <<>>
  /\ result = NoResult
  /\ tickets = <<>>
  /\ stats = None
  /\ users = Principals
  /\ deleted = {}

\* ------------------------------------------------------------ helpers
\* Job.query.get(job_id) finds a row.
Exists(job_id) == job_id \in DOMAIN jobs /\ job_id \notin deleted

\* The values uuid.uuid4() may return.
uuid4 == UUIDs

\* The Job object create_job builds; the column defaults fill the rest.
NewJob(job_id, playbook_id, server_id, user_id, extra_vars) ==
  [job_id |-> job_id, playbook_id |-> playbook_id,
   server_id |-> server_id, user_id |-> user_id,
   status |-> "pending", extra_vars |-> extra_vars,
   celery_task_id |-> NULL, error_message |-> NULL,
   started_at |-> NULL_TS, completed_at |-> NULL_TS]

\* create_job's checks if they forgot Playbook.is_active.
BadReference_ignoring_playbook_is_active(playbook_id, server_id) ==
  \/ playbook_id \notin DOMAIN playbooks
  \/ server_id \notin DOMAIN servers
  \/ ~servers[server_id].is_active

\* create_job's checks of the playbook and the server fail.
BadReference(playbook_id, server_id) ==
  \/ playbook_id \notin DOMAIN playbooks
  \/ ~playbooks[playbook_id].is_active
  \/ server_id \notin DOMAIN servers
  \/ ~servers[server_id].is_active

AuditLog(user_id, action, resource_type, resource_id) ==
  [user_id |-> user_id, action |-> action, resource_type |-> resource_type,
   resource_id |-> resource_id]

\* The Job object after update_job_status's assignments, from the object as loaded.
UpdateAttrs(job, status, error_message, celery_task_id, now) ==
  LET j1 == [job EXCEPT !.status = status]
      j2 == IF celery_task_id # NULL
              THEN [j1 EXCEPT !.celery_task_id = celery_task_id] ELSE j1
      j3 == IF error_message # NULL
              THEN [j2 EXCEPT !.error_message = error_message] ELSE j2
      j4 == IF status = "running" /\ j3.started_at = NULL_TS
              THEN [j3 EXCEPT !.started_at = now] ELSE j3
  IN  IF status \in Terminal THEN [j4 EXCEPT !.completed_at = now] ELSE j4

\* The Job object after cancel_job's assignments, from the object as loaded.
CancelAttrs(job, now) ==
  LET j1 == [job EXCEPT !.status = "cancelled", !.error_message = CANCEL_MARKER]
  IN  IF j1.completed_at = NULL_TS THEN [j1 EXCEPT !.completed_at = now] ELSE j1

\* db.session.commit() of a modified object: the UPDATE sets exactly the columns
\* whose value differs from the value the session loaded; the others keep what
\* the row holds now.
Flush(row, loaded, obj) ==
  [c \in DOMAIN row |-> IF obj[c] # loaded[c] THEN obj[c] ELSE row[c]]

\* One whole update_job_status call on a row nobody else touches meanwhile.
ApplyStatus(row, status, error_message, celery_task_id, now) ==
  Flush(row, row, UpdateAttrs(row, status, error_message, celery_task_id, now))

\* One whole cancel_job call on a row nobody else touches meanwhile.
Cancel(row, now) == Flush(row, row, CancelAttrs(row, now))

\* The history of job j after a step that left its row as jobs'[j].
Seen(j, cancelled_from) ==
  hist' = [hist EXCEPT ![j] = [been |-> @.been \cup {jobs'[j].status},
                               cancelled_from |-> cancelled_from]]

\* ------------------------------------------- operations, one at a time
\* create_job if jobs.job_id were not declared unique.
create_job_without_unique_job_id(playbook_id, server_id, user_id, extra_vars) ==
  /\ calls < MaxCalls
  /\ calls' = calls + 1
  /\ IF BadReference(playbook_id, server_id)
       THEN /\ raised' = "ValueError"
            /\ UNCHANGED <<jobs, audit, hist>>
       ELSE \E u \in uuid4 :
              /\ Len(jobs) < MaxJobs
              /\ jobs' = Append(jobs,
                   NewJob(u, playbook_id, server_id, user_id, extra_vars))
              /\ audit' = Append(audit,
                   AuditLog(user_id, "CREATE", "job", Len(jobs) + 1))
              /\ hist' = Append(hist,
                   [been |-> {"pending"}, cancelled_from |-> NULL])
              /\ raised' = NULL
  /\ done' = None
  /\ UNCHANGED <<playbooks, servers, clock, sess>>

create_job(playbook_id, server_id, user_id, extra_vars) ==
  /\ calls < MaxCalls
  /\ calls' = calls + 1
  /\ IF BadReference(playbook_id, server_id)
       THEN /\ raised' = "ValueError"
            /\ UNCHANGED <<jobs, audit, hist>>
       ELSE \E u \in uuid4 :
              IF \E k \in DOMAIN jobs : Exists(k) /\ jobs[k].job_id = u
                THEN \* jobs.job_id is unique: the INSERT is refused
                     /\ raised' = "IntegrityError"
                     /\ UNCHANGED <<jobs, audit, hist>>
                ELSE /\ Len(jobs) < MaxJobs
                     /\ jobs' = Append(jobs,
                          NewJob(u, playbook_id, server_id, user_id, extra_vars))
                     /\ audit' = Append(audit,
                          AuditLog(user_id, "CREATE", "job", Len(jobs) + 1))
                     /\ hist' = Append(hist,
                          [been |-> {"pending"}, cancelled_from |-> NULL])
                     /\ raised' = NULL
  /\ done' = None
  /\ UNCHANGED <<playbooks, servers, clock, sess>>

\* update_job_status if it returned without a word when it finds no job.
update_job_status_ignoring_missing_job(job_id, status, error_message, celery_task_id) ==
  /\ calls < MaxCalls
  /\ calls' = calls + 1
  /\ IF ~Exists(job_id)
       THEN /\ raised' = NULL
            /\ UNCHANGED <<jobs, hist>>
            /\ done' = None
       ELSE /\ jobs' = [jobs EXCEPT ![job_id] =
                 ApplyStatus(@, status, error_message, celery_task_id, clock)]
            /\ Seen(job_id, hist[job_id].cancelled_from)
            /\ raised' = NULL
            /\ done' = [op |-> "update_job_status", now |-> clock,
                        before |-> jobs[job_id],
                        call |-> [pc |-> "update_job_status", job |-> job_id,
                                  status |-> status, error_message |-> error_message,
                                  celery_task_id |-> celery_task_id,
                                  loaded |-> jobs[job_id], since |-> clock]]
  /\ UNCHANGED <<playbooks, servers, audit, clock, sess>>

update_job_status(job_id, status, error_message, celery_task_id) ==
  /\ calls < MaxCalls
  /\ calls' = calls + 1
  /\ IF ~Exists(job_id)
       THEN /\ raised' = "ValueError"
            /\ UNCHANGED <<jobs, hist>>
            /\ done' = None
       ELSE /\ jobs' = [jobs EXCEPT ![job_id] =
                 ApplyStatus(@, status, error_message, celery_task_id, clock)]
            /\ Seen(job_id, hist[job_id].cancelled_from)
            /\ raised' = NULL
            /\ done' = [op |-> "update_job_status", now |-> clock,
                        before |-> jobs[job_id],
                        call |-> [pc |-> "update_job_status", job |-> job_id,
                                  status |-> status, error_message |-> error_message,
                                  celery_task_id |-> celery_task_id,
                                  loaded |-> jobs[job_id], since |-> clock]]
  /\ UNCHANGED <<playbooks, servers, audit, clock, sess>>

\* cancel_job if it also made the job the canceller's.
cancel_job_taking_the_job_over(job_id, user_id) ==
  /\ calls < MaxCalls
  /\ calls' = calls + 1
  /\ IF ~Exists(job_id)
       THEN /\ raised' = "ValueError"
            /\ UNCHANGED <<jobs, audit, hist>>
            /\ done' = None
       ELSE /\ jobs' = [jobs EXCEPT ![job_id] =
                 [Cancel(@, clock) EXCEPT !.user_id = user_id]]
            /\ audit' = Append(audit, AuditLog(user_id, "CANCEL", "job", job_id))
            /\ Seen(job_id, jobs[job_id].status)
            /\ raised' = NULL
            /\ done' = [op |-> "cancel_job", now |-> clock, before |-> jobs[job_id],
                        call |-> [pc |-> "cancel_job", job |-> job_id,
                                  user_id |-> user_id, loaded |-> jobs[job_id],
                                  since |-> clock]]
  /\ UNCHANGED <<playbooks, servers, clock, sess>>

cancel_job(job_id, user_id) ==
  /\ calls < MaxCalls
  /\ calls' = calls + 1
  /\ IF ~Exists(job_id)
       THEN /\ raised' = "ValueError"
            /\ UNCHANGED <<jobs, audit, hist>>
            /\ done' = None
       ELSE /\ jobs' = [jobs EXCEPT ![job_id] = Cancel(@, clock)]
            /\ audit' = Append(audit, AuditLog(user_id, "CANCEL", "job", job_id))
            /\ Seen(job_id, jobs[job_id].status)
            /\ raised' = NULL
            /\ done' = [op |-> "cancel_job", now |-> clock, before |-> jobs[job_id],
                        call |-> [pc |-> "cancel_job", job |-> job_id,
                                  user_id |-> user_id, loaded |-> jobs[job_id],
                                  since |-> clock]]
  /\ UNCHANGED <<playbooks, servers, clock, sess>>

\* PlaybookService.delete_playbook (soft delete) of an existing playbook; a
\* playbook is deleted at most once here, which keeps the audit log bounded.
delete_playbook(playbook_id, user_id) ==
  /\ playbook_id \in DOMAIN playbooks
  /\ playbooks[playbook_id].is_active
  /\ playbooks' = [playbooks EXCEPT ![playbook_id].is_active = FALSE]
  /\ audit' = Append(audit, AuditLog(user_id, "DELETE", "playbook", playbook_id))
  /\ UNCHANGED <<jobs, servers, clock, sess, raised, calls, hist, done, api>>

Tick ==
  /\ clock < MaxClock
  /\ clock' = clock + 1
  /\ UNCHANGED <<jobs, playbooks, servers, audit, sess, raised, calls, hist, done, api>>

CreateStep ==
  /\ \E p \in PlaybookIds \cup {MissingId}, s \in ServerIds \cup {MissingId},
        u \in UserIds : create_job(p, s, u, "{}")
  /\ UNCHANGED api

RegistryStep == \E p \in PlaybookIds, u \in UserIds : delete_playbook(p, u)

Next ==
  \/ CreateStep
  \/ \E j \in JobIds, s \in Statuses, em \in ErrorMessages, tid \in TaskIds :
        update_job_status(j, s, em, tid) /\ UNCHANGED api
  \/ \E j \in JobIds, u \in UserIds : cancel_job(j, u) /\ UNCHANGED api
  \/ RegistryStep
  \/ Tick

Spec == Init /\ [][Next]_vars

\* ------------------------------ operations of two interleaved handlers
\* Job.query.get(job_id) in handler h's session, for update_job_status.
update_job_status_get(h, job_id, status, error_message, celery_task_id) ==
  /\ sess[h].pc = "idle"
  /\ calls < MaxCalls
  /\ calls' = calls + 1
  /\ IF ~Exists(job_id)
       THEN /\ raised' = "ValueError"
            /\ UNCHANGED sess
       ELSE /\ sess' = [sess EXCEPT ![h] =
                 [pc |-> "update_job_status", job |-> job_id, status |-> status,
                  error_message |-> error_message, celery_task_id |-> celery_task_id,
                  loaded |-> jobs[job_id], since |-> clock]]
            /\ UNCHANGED raised
  /\ done' = None
  /\ UNCHANGED <<jobs, playbooks, servers, audit, clock, hist, api>>

\* The assignments and db.session.commit() of update_job_status in handler h;
\* datetime.utcnow() was read at some time since the row was loaded.
update_job_status_commit(h) ==
  /\ sess[h].pc = "update_job_status"
  /\ \E now \in sess[h].since..clock :
       /\ jobs' = [jobs EXCEPT ![sess[h].job] =
            Flush(@, sess[h].loaded,
                  UpdateAttrs(sess[h].loaded, sess[h].status, sess[h].error_message,
                              sess[h].celery_task_id, now))]
       /\ done' = [op |-> "update_job_status", call |-> sess[h], now |-> now,
                   before |-> jobs[sess[h].job]]
  /\ Seen(sess[h].job, hist[sess[h].job].cancelled_from)
  /\ raised' = NULL
  /\ sess' = [sess EXCEPT ![h] = Idle]
  /\ UNCHANGED <<playbooks, servers, audit, clock, calls, api>>

\* Job.query.get(job_id) in handler h's session, for cancel_job.
cancel_job_get(h, job_id, user_id) ==
  /\ sess[h].pc = "idle"
  /\ calls < MaxCalls
  /\ calls' = calls + 1
  /\ IF ~Exists(job_id)
       THEN /\ raised' = "ValueError"
            /\ UNCHANGED sess
       ELSE /\ sess' = [sess EXCEPT ![h] =
                 [pc |-> "cancel_job", job |-> job_id, user_id |-> user_id,
                  loaded |-> jobs[job_id], since |-> clock]]
            /\ UNCHANGED raised
  /\ done' = None
  /\ UNCHANGED <<jobs, playbooks, servers, audit, clock, hist, api>>

\* The assignments of cancel_job and the commit in _create_audit_log, which
\* flushes the modified Job and the new AuditLog in one transaction.
cancel_job_commit(h) ==
  /\ sess[h].pc = "cancel_job"
  /\ \E now \in sess[h].since..clock :
       /\ jobs' = [jobs EXCEPT ![sess[h].job] =
            Flush(@, sess[h].loaded, CancelAttrs(sess[h].loaded, now))]
       /\ done' = [op |-> "cancel_job", call |-> sess[h], now |-> now,
                   before |-> jobs[sess[h].job]]
  /\ audit' = Append(audit, AuditLog(sess[h].user_id, "CANCEL", "job", sess[h].job))
  /\ Seen(sess[h].job, jobs[sess[h].job].status)
  /\ raised' = NULL
  /\ sess' = [sess EXCEPT ![h] = Idle]
  /\ UNCHANGED <<playbooks, servers, clock, calls, api>>

NextConc ==
  \/ CreateStep
  \/ \E h \in Handlers, j \in JobIds, s \in Statuses, em \in ErrorMessages,
        tid \in TaskIds : update_job_status_get(h, j, s, em, tid)
  \/ \E h \in Handlers : update_job_status_commit(h)
  \/ \E h \in Handlers, j \in JobIds, u \in UserIds : cancel_job_get(h, j, u)
  \/ \E h \in Handlers : cancel_job_commit(h)
  \/ RegistryStep
  \/ Tick

SpecConc == Init /\ [][NextConc]_vars

\* ------------------------------------------- failures of the audit log
\* create_job when the INSERT of its audit row is refused: the Job was committed
\* before (db.session.commit() after db.session.add(job)), and the exception of
\* _create_audit_log's commit leaves create_job.
create_job_audit_fails(playbook_id, server_id, user_id, extra_vars) ==
  /\ calls < MaxCalls
  /\ calls' = calls + 1
  /\ ~BadReference(playbook_id, server_id)
  /\ Len(jobs) < MaxJobs
  /\ \E u \in uuid4 :
       /\ \A k \in DOMAIN jobs : Exists(k) => jobs[k].job_id # u
       /\ jobs' = Append(jobs, NewJob(u, playbook_id, server_id, user_id, extra_vars))
  /\ hist' = Append(hist, [been |-> {"pending"}, cancelled_from |-> NULL])
  /\ raised' = "SQLAlchemyError"
  /\ done' = None
  /\ UNCHANGED <<playbooks, servers, audit, clock, sess>>

\* cancel_job when the INSERT of its audit row is refused: the assignments to
\* the Job are flushed in the transaction of _create_audit_log's commit, the
\* only commit reached, so they are rolled back with it.
cancel_job_audit_fails(job_id, user_id) ==
  /\ calls < MaxCalls
  /\ calls' = calls + 1
  /\ Exists(job_id)
  /\ raised' = "SQLAlchemyError"
  /\ done' = None
  /\ UNCHANGED <<jobs, playbooks, servers, audit, clock, sess, hist>>

\* ---------------------------------------------------------- HTTP routes
Respond(code) == [NoRequest EXCEPT !.response = code]

\* POST /jobs if it went on to delay() without having stored the job.
jobs_bp_create_job_dispatching_first(playbook_id, server_id, user_id) ==
  /\ route.pc = "idle"
  /\ calls < MaxCalls
  /\ calls' = calls + 1
  /\ Len(jobs) < MaxJobs
  /\ raised' = NULL
  /\ done' = None
  /\ route' = [pc |-> "delay", job |-> Len(jobs) + 1, task |-> NULL, response |-> 0]
  /\ UNCHANGED <<jobs, playbooks, servers, audit, clock, sess, hist>>
  /\ UNCHANGED <<broker, logs, result, side>>

\* POST /jobs up to the return of job_service.create_job, and the except
\* clauses that answer its exceptions.
jobs_bp_create_job(playbook_id, server_id, user_id) ==
  /\ route.pc = "idle"
  /\ \/ create_job(playbook_id, server_id, user_id, "{}")
     \/ create_job_audit_fails(playbook_id, server_id, user_id, "{}")
  /\ route' = IF raised' = NULL
                THEN [pc |-> "delay", job |-> Len(jobs'), task |-> NULL, response |-> 0]
                ELSE Respond(IF raised' = "ValueError" THEN 400 ELSE 500)
  /\ UNCHANGED <<broker, logs, result, side>>

\* The same with an except clause that marks the job failed when delay raises.
execute_playbook_task_delay_marking_failed(ok) ==
  /\ route.pc = "delay"
  /\ IF ok
       THEN \E t \in TaskIds \ {NULL} :
              /\ \A i \in DOMAIN broker : broker[i].id # t
              /\ broker' = Append(broker, [kind |-> "task", id |-> t, job |-> route.job])
              /\ route' = [route EXCEPT !.pc = "record", !.task = t]
              /\ jobs' = jobs
       ELSE /\ broker' = broker
            /\ route' = Respond(500)
            /\ jobs' = [jobs EXCEPT ![route.job] =
                 ApplyStatus(@, "failed", "err", NULL, clock)]
  /\ UNCHANGED <<playbooks, servers, audit, clock, sess, raised, calls, hist,
                 done, logs, result, side>>

\* POST /jobs: execute_playbook_task.delay(job.id) publishes the task and
\* returns its id (ok), or raises because the broker cannot be reached.
execute_playbook_task_delay(ok) ==
  /\ route.pc = "delay"
  /\ IF ok
       THEN \E t \in TaskIds \ {NULL} :
              /\ \A i \in DOMAIN broker : broker[i].id # t
              /\ broker' = Append(broker, [kind |-> "task", id |-> t, job |-> route.job])
              /\ route' = [route EXCEPT !.pc = "record", !.task = t]
       ELSE /\ broker' = broker
            /\ route' = Respond(500)
  /\ UNCHANGED <<jobs, playbooks, servers, audit, clock, sess, raised, calls, hist,
                 done, logs, result, side>>

\* POST /jobs: job_service.update_job_status(job.id, 'pending',
\* celery_task_id=task.id) and the response.
jobs_bp_create_job_record ==
  /\ route.pc = "record"
  /\ update_job_status(route.job, "pending", NULL, route.task)
  /\ route' = Respond(IF raised' = NULL THEN 201 ELSE 400)
  /\ UNCHANGED <<broker, logs, result, side>>

\* POST /jobs/<id>/cancel up to the return of job_service.cancel_job.
jobs_bp_cancel_job(job_id, user_id) ==
  /\ route.pc = "idle"
  /\ \/ cancel_job(job_id, user_id)
     \/ cancel_job_audit_fails(job_id, user_id)
  /\ route' = IF raised' = "ValueError" THEN Respond(400)
              ELSE IF raised' # NULL THEN Respond(500)
              ELSE IF jobs'[job_id].celery_task_id # NULL
                THEN [pc |-> "revoke", job |-> job_id,
                      task |-> jobs'[job_id].celery_task_id, response |-> 0]
                ELSE Respond(200)
  /\ UNCHANGED <<broker, logs, result, side>>

\* POST /jobs/<id>/cancel: celery.control.revoke(job.celery_task_id, ...)
\* publishes the revoke (ok), or raises because the broker cannot be reached.
celery_control_revoke(ok) ==
  /\ route.pc = "revoke"
  /\ IF ok
       THEN /\ broker' = Append(broker,
                 [kind |-> "revoke", id |-> route.task, job |-> route.job])
            /\ route' = Respond(200)
       ELSE /\ broker' = broker
            /\ route' = Respond(500)
  /\ UNCHANGED <<jobs, playbooks, servers, audit, clock, sess, raised, calls, hist,
                 done, logs, result, side>>

NextRoute ==
  \/ \E p \in PlaybookIds \cup {MissingId}, s \in ServerIds \cup {MissingId},
        u \in UserIds : jobs_bp_create_job(p, s, u)
  \/ \E ok \in BOOLEAN : execute_playbook_task_delay(ok)
  \/ jobs_bp_create_job_record
  \/ \E j \in JobIds, u \in UserIds : jobs_bp_cancel_job(j, u)
  \/ \E ok \in BOOLEAN : celery_control_revoke(ok)
  \/ RegistryStep
  \/ Tick

SpecRoute == Init /\ [][NextRoute]_vars

\* ------------------------------------------------- the execution worker
\* The task messages published for job_id.
Tasks(job_id) ==
  {i \in DOMAIN broker : broker[i].kind = "task" /\ broker[i].job = job_id}

\* The worker's status callback for a task it received: it reports running,
\* success or failed through update_job_status, at any time after the task was
\* published.
execute_playbook_task(job_id, status, error_message) ==
  /\ Tasks(job_id) # {}
  /\ update_job_status(job_id, status, error_message, NULL)
  /\ UNCHANGED api

WorkerStep ==
  \E j \in JobIds, s \in {"running", "success", "failed"}, em \in ErrorMessages :
     execute_playbook_task(j, s, em)

\* The routes with the worker running beside them.
NextDispatch ==
  \/ \E p \in PlaybookIds \cup {MissingId}, s \in ServerIds \cup {MissingId},
        u \in UserIds : jobs_bp_create_job(p, s, u)
  \/ \E ok \in BOOLEAN : execute_playbook_task_delay(ok)
  \/ jobs_bp_create_job_record
  \/ \E j \in JobIds, u \in UserIds : jobs_bp_cancel_job(j, u)
  \/ \E ok \in BOOLEAN : celery_control_revoke(ok)
  \/ WorkerStep
  \/ Tick

SpecDispatch == Init /\ [][NextDispatch]_vars

\* A request that was received is handled to its response, and a task that was
\* published is run by the worker; nobody has to send a request.
Fairness ==
  /\ WF_vars(\E ok \in BOOLEAN : execute_playbook_task_delay(ok))
  /\ WF_vars(jobs_bp_create_job_record)
  /\ WF_vars(\E ok \in BOOLEAN : celery_control_revoke(ok))
  /\ WF_vars(WorkerStep)

SpecDispatchFair == SpecDispatch /\ Fairness

\* ------------------------------------------------------------ job_logs
JobLog(job_id, line_number, content, log_level) ==
  [job_id |-> job_id, line_number |-> line_number, content |-> content,
   log_level |-> log_level]

\* add_job_log: one INSERT, with the line_number the caller passes. The foreign
\* key job_logs.job_id -> jobs.id refuses a row of a job that does not exist.
add_job_log(job_id, line_number, content, log_level) ==
  /\ Len(logs) < MaxLogs
  /\ IF ~Exists(job_id)
       THEN /\ raised' = "IntegrityError"
            /\ UNCHANGED logs
       ELSE /\ logs' = Append(logs, JobLog(job_id, line_number, content, log_level))
            /\ raised' = NULL
  /\ UNCHANGED <<jobs, playbooks, servers, audit, clock, sess, calls, hist, done,
                 route, broker, result, side>>

\* The rows add_job_logs_bulk builds from the list of dictionaries, in list order.
RECURSIVE log_entries(_, _)
log_entries(job_id, lines) ==
  IF lines = <<>> THEN <<>>
  ELSE <<JobLog(job_id, Head(lines).line_number, Head(lines).content, "INFO")>>
         \o log_entries(job_id, Tail(lines))

\* add_job_logs_bulk: the rows of the list in one transaction.
add_job_logs_bulk(job_id, lines) ==
  /\ Len(logs) + Len(lines) <= MaxLogs
  /\ IF ~Exists(job_id) /\ lines # <<>>
       THEN /\ raised' = "IntegrityError"
            /\ UNCHANGED logs
       ELSE /\ logs' = logs \o log_entries(job_id, lines)
            /\ raised' = NULL
  /\ UNCHANGED <<jobs, playbooks, servers, audit, clock, sess, calls, hist, done,
                 route, broker, result, side>>

\* Python's truth value of an optional integer argument: None and 0 are false.
Truthy(x) == x # NONE /\ x # 0

\* The ids of the rows get_job_logs's WHERE clause selects.
Selected(job_id, start_line) ==
  {i \in DOMAIN logs :
     /\ logs[i].job_id = job_id
     /\ Truthy(start_line) => logs[i].line_number >= start_line}

\* ORDER BY line_number over the rows S: every order of S that is ascending in
\* line_number (rows with equal line_number come in any order).
OrderBy(S) ==
  {q \in [1..Cardinality(S) -> S] :
     /\ \A a, b \in 1..Cardinality(S) : a # b => q[a] # q[b]
     /\ \A a, b \in 1..Cardinality(S) :
          a < b => logs[q[a]].line_number <= logs[q[b]].line_number}

\* get_job_logs: the ids of the rows returned, in the order returned.
get_job_logs(job_id, start_line, limit) ==
  /\ \E q \in OrderBy(Selected(job_id, start_line)) :
       result' = [job_id |-> job_id, start_line |-> start_line, limit |-> limit,
                  rows |-> IF Truthy(limit) /\ limit < Len(q)
                             THEN SubSeq(q, 1, limit) ELSE q]
  /\ UNCHANGED <<jobs, playbooks, servers, audit, clock, sess, raised, calls, hist,
                 done, route, broker, logs, side>>

\* The lists of dictionaries a caller passes to add_job_logs_bulk.
Batches ==
  UNION {[1..n -> [line_number : LineNumbers, content : Contents]] : n \in 0..2}

NextLogs ==
  \/ CreateStep
  \/ \E j \in JobIds, n \in LineNumbers, c \in Contents : add_job_log(j, n, c, "INFO")
  \/ \E j \in JobIds, b \in Batches : add_job_logs_bulk(j, b)
  \/ \E j \in JobIds, s \in LineNumbers \cup {NONE}, l \in LineNumbers \cup {NONE} :
        get_job_logs(j, s, l)

SpecLogs == Init /\ [][NextLogs]_vars

\* ----------------------------------- tickets, statistics and deletions
\* The Ticket object create_ticket_from_job builds. ticket_id, a uuid4 string
\* no claim speaks of, is left out, and with it the unique constraint on it.
Ticket(job_id, created_by, priority) ==
  [job_id |-> job_id, created_by |-> created_by, status |-> "open",
   priority |-> priority]

\* create_ticket_from_job if it refused a job that has not failed.
create_ticket_from_job_of_failed_job(job_id, user_id, priority) ==
  /\ Len(tickets) < MaxTickets
  /\ IF ~Exists(job_id) \/ jobs[job_id].status # "failed"
       THEN /\ raised' = "ValueError"
            /\ UNCHANGED <<tickets, audit>>
       ELSE /\ tickets' = Append(tickets, Ticket(job_id, user_id, priority))
            /\ audit' = Append(audit, AuditLog(user_id, "CREATE_TICKET", "job", job_id))
            /\ raised' = NULL
  /\ done' = None
  /\ UNCHANGED <<jobs, playbooks, servers, clock, sess, calls, hist,
                 route, broker, logs, result, stats, users, deleted>>

create_ticket_from_job(job_id, user_id, priority) ==
  /\ Len(tickets) < MaxTickets
  /\ IF ~Exists(job_id)
       THEN /\ raised' = "ValueError"
            /\ UNCHANGED <<tickets, audit>>
       ELSE /\ tickets' = Append(tickets, Ticket(job_id, user_id, priority))
            /\ audit' = Append(audit, AuditLog(user_id, "CREATE_TICKET", "job", job_id))
            /\ raised' = NULL
  /\ done' = None
  /\ UNCHANGED <<jobs, playbooks, servers, clock, sess, calls, hist,
                 route, broker, logs, result, stats, users, deleted>>

\* round(n / d, 0) of Python 3 for integers n >= 0 and d > 0: to the nearest
\* integer, a tie to the even one.
Round(n, d) ==
  LET q == n \div d
      r == n % d
  IN  IF 2 * r < d THEN q
      ELSE IF 2 * r > d THEN q + 1
      ELSE IF q % 2 = 0 THEN q ELSE q + 1

\* The jobs the query of get_job_statistics ranges over.
Scope(user_id) ==
  {k \in DOMAIN jobs : Exists(k) /\ (Truthy(user_id) => jobs[k].user_id = user_id)}

\* query.filter_by(status=status).count()
Count(user_id, status) ==
  Cardinality({k \in Scope(user_id) : jobs[k].status = status})

\* success_rate if it were success / total.
success_rate_of_successful_jobs(user_id) ==
  LET total == Cardinality(Scope(user_id))
  IN  IF total > 0
        THEN Round(Count(user_id, "success") * 100 * 100, total)
        ELSE 0

\* 'success_rate' of get_job_statistics, in hundredths of a percent:
\* round((total - failed) / total * 100, 2) if total > 0 else 0.
success_rate(user_id) ==
  LET total == Cardinality(Scope(user_id))
  IN  IF total > 0
        THEN Round((total - Count(user_id, "failed")) * 100 * 100, total)
        ELSE 0

\* get_job_statistics: the dictionary returned (and the argument it was given).
get_job_statistics(user_id) ==
  /\ stats' = [user_id |-> user_id,
               total |-> Cardinality(Scope(user_id)),
               pending |-> Count(user_id, "pending"),
               running |-> Count(user_id, "running"),
               success |-> Count(user_id, "success"),
               failed |-> Count(user_id, "failed"),
               cancelled |-> Count(user_id, "cancelled"),
               success_rate |-> success_rate(user_id)]
  /\ UNCHANGED <<jobs, playbooks, servers, audit, clock, sess, raised, calls, hist,
                 done, route, broker, logs, result, tickets, users, deleted>>

\* The jobs a DELETE removes together with the row that owns them.
JobsOf(column, id) == {k \in DOMAIN jobs : Exists(k) /\ jobs[k][column] = id}

\* db.session.delete(job) for the jobs in gone: the rows of job_logs and of
\* tickets that go with them (JobLog.query...delete(), and the delete cascade
\* of Job.logs and Job.tickets), and the tickets of the users in creators.
DeleteJobs(gone, creators) ==
  /\ deleted' = deleted \cup gone
  /\ logs' = SelectSeq(logs, LAMBDA l : l.job_id \notin gone)
  /\ tickets' = SelectSeq(tickets, LAMBDA t : t.job_id \notin gone /\ t.created_by \notin creators)

\* PlaybookService.hard_delete_playbook; removed tells whether os.remove of the
\* playbook's file returned (it raises otherwise, before the commit).
hard_delete_playbook(playbook_id, user_id, removed) ==
  /\ IF playbook_id \notin DOMAIN playbooks \/ ~removed
       THEN /\ raised' = "ValueError"
            /\ UNCHANGED <<playbooks, audit, logs, tickets, deleted>>
       ELSE /\ DeleteJobs(JobsOf("playbook_id", playbook_id), {})
            /\ playbooks' = [p \in DOMAIN playbooks \ {playbook_id} |-> playbooks[p]]
            /\ audit' = Append(audit,
                 AuditLog(user_id, "HARD_DELETE", "playbook", playbook_id))
            /\ raised' = NULL
  /\ done' = None
  /\ UNCHANGED <<jobs, servers, clock, sess, calls, hist, route, broker, result,
                 stats, users>>

\* DELETE /users/<id> of an existing user by another, super_admin, user:
\* db.session.delete(user) cascades to User.jobs (and from each job to its logs
\* and tickets), to User.tickets and to User.audit_logs.
delete_user(user_id) ==
  /\ user_id \in users
  /\ users' = users \ {user_id}
  /\ DeleteJobs(JobsOf("user_id", user_id), {user_id})
  /\ audit' = SelectSeq(audit, LAMBDA a : a.user_id # user_id)
  /\ raised' = NULL
  /\ done' = None
  /\ UNCHANGED <<jobs, playbooks, servers, clock, sess, calls, hist, route, broker,
                 result, stats>>

\* The calls, log rows and tickets of one behaviour of SpecStore are bounded
\* together.
Budget == calls + Len(logs) + Len(tickets) < MaxCalls

\* The JobService calls of authenticated users and of the worker on a store
\* that nothing is deleted from.
NextStore ==
  \/ /\ Budget
     /\ \E p \in PlaybookIds, s \in ServerIds, u \in users : create_job(p, s, u, "{}")
     /\ UNCHANGED api
  \/ /\ Budget
     /\ \E j \in JobIds, s \in Statuses, tid \in TaskIds :
          update_job_status(j, s, NULL, tid)
     /\ UNCHANGED api
  \/ /\ Budget
     /\ \E j \in JobIds, u \in users : cancel_job(j, u)
     /\ UNCHANGED api
  \/ /\ Budget
     /\ \E j \in JobIds, c \in Contents : add_job_log(j, Len(logs) + 1, c, "INFO")
  \/ /\ Budget
     /\ \E j \in JobIds, u \in users : create_ticket_from_job(j, u, "medium")
  \/ \E u \in users \cup {NONE} : get_job_statistics(u)

SpecStore == Init /\ [][NextStore]_vars

\* The same store under the deletions of playbooks and users.
NextCascade ==
  \/ \E p \in PlaybookIds, s \in ServerIds, u \in users :
        create_job(p, s, u, "{}") /\ UNCHANGED api
  \/ \E j \in JobIds, c \in Contents : add_job_log(j, Len(logs) + 1, c, "INFO")
  \/ \E j \in JobIds, u \in users : create_ticket_from_job(j, u, "medium")
  \/ \E p \in PlaybookIds \cup {MissingId}, u \in users, removed \in BOOLEAN :
        hard_delete_playbook(p, u, removed)
  \/ \E u \in users : delete_user(u)

SpecCascade == Init /\ [][NextCascade]_vars

\* ------------------------------------------------------------- claims
\* A step that is a call of update_job_status on job j with a status in S.
UpdateCall(j, S) ==
  \E s \in S, em \in ErrorMessages, tid \in TaskIds : update_job_status(j, s, em, tid)

\* A step that is a call of cancel_job on job j.
CancelCall(j) == \E u \in UserIds : cancel_job(j, u)

SameLifecycle(a, b) ==
  /\ a.status = b.status
  /\ a.started_at = b.started_at
  /\ a.completed_at = b.completed_at

\* C1: once a job's status is success, failed or cancelled, every further
\* update_job_status call on it, with any status, is rejected with
\* InvalidTransitionError and leaves status, started_at and completed_at as
\* they were.
C1_TerminalAbsorbing ==
  [][\A j \in DOMAIN jobs :
       (jobs[j].status \in Terminal /\ UpdateCall(j, Statuses))
         => /\ raised' = "InvalidTransitionError"
            /\ SameLifecycle(jobs'[j], jobs[j])]_vars

\* C2: a cancel_job on a pending or running job leaves it cancelled with
\* completed_at set, and from then on every update_job_status(running | success
\* | failed) on it is rejected and not applied: the job stays cancelled.
C2_CancelIsFinal ==
  [][\A j \in DOMAIN jobs :
       /\ (jobs[j].status \in {"pending", "running"} /\ CancelCall(j))
            => (jobs'[j].status = "cancelled" /\ jobs'[j].completed_at # NULL_TS)
       /\ (hist[j].cancelled_from \in {"pending", "running"}
           /\ jobs[j].status = "cancelled")
            => /\ jobs'[j].status = "cancelled"
               /\ UpdateCall(j, {"running", "success", "failed"})
                    => (raised' # NULL /\ jobs'[j] = jobs[j])]_vars

\* C3: in every state completed_at is set exactly when the status is success,
\* failed or cancelled, and once set no later call changes it.
C3_CompletedAt ==
  [][/\ \A j \in DOMAIN jobs' :
          (jobs'[j].completed_at # NULL_TS) <=> (jobs'[j].status \in Terminal)
     /\ \A j \in DOMAIN jobs :
          jobs[j].completed_at # NULL_TS
            => jobs'[j].completed_at = jobs[j].completed_at]_vars

\* C4: in every state started_at is set exactly when the job's status has been
\* running at some point, and once set it is never changed (re-entering running
\* keeps it).
C4_StartedAt ==
  [][/\ \A j \in DOMAIN jobs' :
          (jobs'[j].started_at # NULL_TS) <=> ("running" \in hist'[j].been)
     /\ \A j \in DOMAIN jobs :
          jobs[j].started_at # NULL_TS
            => jobs'[j].started_at = jobs[j].started_at]_vars

\* C5: whenever started_at and completed_at are both set, started_at <= completed_at.
C5_StartedBeforeCompleted ==
  \A j \in DOMAIN jobs :
    (jobs[j].started_at # NULL_TS /\ jobs[j].completed_at # NULL_TS)
      => jobs[j].started_at <= jobs[j].completed_at

Observable(row) ==
  <<row.status, row.started_at, row.completed_at, row.error_message,
    row.celery_task_id>>

\* C6: an update_job_status call that repeats the call before it (same job,
\* status, error_message and celery_task_id), at the same or a later time, leaves
\* the observable job state as the first call left it.
C6_Idempotent ==
  [][\A j \in DOMAIN jobs, s \in Statuses, em \in ErrorMessages, tid \in TaskIds :
       (/\ done.op = "update_job_status"
        /\ done.call.job = j
        /\ done.call.status = s
        /\ done.call.error_message = em
        /\ done.call.celery_task_id = tid
        /\ update_job_status(j, s, em, tid))
         => Observable(jobs'[j]) = Observable(jobs[j])]_vars

\* C7: a cancel_job on a job whose status is success or cancelled fails with
\* InvalidTransitionError, leaves status, error_message and completed_at
\* unchanged and writes no audit row.
C7_CancelForbidden ==
  [][\A j \in DOMAIN jobs :
       (jobs[j].status \in {"success", "cancelled"} /\ CancelCall(j))
         => /\ raised' = "InvalidTransitionError"
            /\ jobs'[j].status = jobs[j].status
            /\ jobs'[j].error_message = jobs[j].error_message
            /\ jobs'[j].completed_at = jobs[j].completed_at
            /\ audit' = audit]_vars

\* What C8 says of a cancel_job that took the row from `old` to `new`.
CancelEffect(old, new) ==
  /\ new.status = "cancelled"
  /\ new.error_message = CANCEL_MARKER
  /\ new.completed_at # NULL_TS
  /\ old.completed_at # NULL_TS => new.completed_at = old.completed_at
  /\ new.started_at = old.started_at
  /\ new.celery_task_id = old.celery_task_id
  /\ new.job_id = old.job_id
  /\ new.playbook_id = old.playbook_id
  /\ new.server_id = old.server_id
  /\ new.user_id = old.user_id
  /\ new.extra_vars = old.extra_vars

\* C8: a cancel_job that commits on a job whose status is pending, running or
\* failed leaves it cancelled with the cancellation marker and completed_at set,
\* keeps a completed_at that was already set, and changes nothing else.
C8_CancelEffect ==
  [][\A j \in DOMAIN jobs, h \in Handlers :
       (/\ sess[h].pc = "cancel_job"
        /\ sess[h].job = j
        /\ jobs[j].status \in {"pending", "running", "failed"}
        /\ cancel_job_commit(h))
         => CancelEffect(jobs[j], jobs'[j])]_vars

\* C8 for calls that do not overlap.
C8_CancelEffectSequential ==
  [][\A j \in DOMAIN jobs :
       (jobs[j].status \in {"pending", "running", "failed"} /\ CancelCall(j))
         => CancelEffect(jobs[j], jobs'[j])]_vars

\* The rows two update_job_status calls a and b leave when one runs after the
\* other on row r0, in either order, at any two times of a non-decreasing clock.
SerialOutcomes(r0, a, b) ==
  LET Run(x, y) ==
        {ApplyStatus(ApplyStatus(r0, x.status, x.error_message, x.celery_task_id, t1),
                     y.status, y.error_message, y.celery_task_id, t2) :
           <<t1, t2>> \in {tt \in (1..clock) \X (1..clock) : tt[1] <= tt[2]}}
  IN  Run(a, b) \cup Run(b, a)

\* C9: two status callbacks (update_job_status without a celery_task_id) on the
\* same job that overlap (both loaded the same row before either committed)
\* leave the row as one of them followed by the other would have.
C9_Linearizable ==
  [][\A h \in Handlers :
       (/\ sess[h].pc = "update_job_status"
        /\ done.op = "update_job_status"
        /\ sess[h].celery_task_id = NULL
        /\ done.call.celery_task_id = NULL
        /\ done.call.job = sess[h].job
        /\ done.call.loaded = sess[h].loaded
        /\ done.before = sess[h].loaded
        /\ update_job_status_commit(h))
         => jobs'[sess[h].job] \in SerialOutcomes(sess[h].loaded, done.call, sess[h])]_vars

\* C10: when a cancel_job and an update_job_status on the same job overlap and
\* the cancel_job commits, the job is cancelled once both have finished,
\* whichever of the two commits last.
C10_CancelWinsRace ==
  [][\A h \in Handlers :
       (/\ sess[h].pc \in {"update_job_status", "cancel_job"}
        /\ done.op \in {"update_job_status", "cancel_job"}
        /\ done.op # sess[h].pc
        /\ done.call.job = sess[h].job
        /\ (update_job_status_commit(h) \/ cancel_job_commit(h)))
         => jobs'[sess[h].job].status = "cancelled"]_vars

\* C11: a job's status never changes from running back to pending, nor from
\* success, failed or cancelled to pending or running.
C11_NoBackwardTransition ==
  [][\A j \in DOMAIN jobs :
       /\ jobs[j].status = "running" => jobs'[j].status # "pending"
       /\ jobs[j].status \in Terminal
            => jobs'[j].status \notin {"pending", "running"}]_vars

\* The references C12 names: the playbook or the server does not exist or is
\* not active.
Unusable(p, s) ==
  \/ p \notin DOMAIN playbooks
  \/ ~playbooks[p].is_active
  \/ s \notin DOMAIN servers
  \/ ~servers[s].is_active

\* C12: a POST /jobs whose playbook or server does not exist or is inactive
\* fails with the reference error (ValueError, answered 400): no Job row and no
\* audit row is written, and nothing is or will be published to the broker.
C12_CreateRejectsBadReference ==
  [][\A p \in PlaybookIds \cup {MissingId}, s \in ServerIds \cup {MissingId},
        u \in UserIds :
       (Unusable(p, s) /\ jobs_bp_create_job(p, s, u))
         => /\ raised' = "ValueError"
            /\ jobs' = jobs
            /\ audit' = audit
            /\ broker' = broker
            /\ route'.pc = "idle"
            /\ route'.response = 400]_vars

\* A POST /jobs was just refused, with a job stored earlier and its playbook
\* deactivated since.
C12_Witness ==
  /\ raised = "ValueError"
  /\ route.response = 400
  /\ Len(jobs) = 1
  /\ \E p \in PlaybookIds : ~playbooks[p].is_active

\* C13: a create_job that returns stores exactly one new row, with status
\* pending, no celery_task_id, started_at, completed_at or error_message, and a
\* job_id no existing row has; it publishes nothing to the broker.
C13_CreateStoresPendingJob ==
  [][\A p \in PlaybookIds \cup {MissingId}, s \in ServerIds \cup {MissingId},
        u \in UserIds :
       (create_job(p, s, u, "{}") /\ raised' = NULL)
         => /\ Len(jobs') = Len(jobs) + 1
            /\ \A k \in DOMAIN jobs : jobs'[k] = jobs[k]
            /\ jobs'[Len(jobs')].status = "pending"
            /\ jobs'[Len(jobs')].celery_task_id = NULL
            /\ jobs'[Len(jobs')].started_at = NULL_TS
            /\ jobs'[Len(jobs')].completed_at = NULL_TS
            /\ jobs'[Len(jobs')].error_message = NULL
            /\ \A k \in DOMAIN jobs : jobs[k].job_id # jobs'[Len(jobs')].job_id
            /\ broker' = broker]_vars

\* A second job was just created, after the first one was dispatched.
C13_Witness ==
  /\ Len(jobs) = 2
  /\ raised = NULL
  /\ route.pc = "delay"
  /\ route.job = 2
  /\ broker # <<>>

\* C14: recording a task id (update_job_status(job, 'pending',
\* celery_task_id=tid)) on a job that has one never changes the stored
\* celery_task_id: the same id again changes nothing, a different id fails with
\* ConflictError.
C14_WorkerHandleFixed ==
  [][\A j \in DOMAIN jobs, tid \in TaskIds \ {NULL} :
       (jobs[j].celery_task_id # NULL /\ update_job_status(j, "pending", NULL, tid))
         => /\ jobs'[j].celery_task_id = jobs[j].celery_task_id
            /\ tid = jobs[j].celery_task_id => jobs'[j] = jobs[j]
            /\ tid # jobs[j].celery_task_id => raised' = "ConflictError"]_vars

\* C15: when execute_playbook_task.delay raises, the job the request created is
\* still pending with no celery_task_id, no Job row is changed and nothing was
\* published.
C15_DispatchFailureKeepsPending ==
  [][execute_playbook_task_delay(FALSE)
       => /\ jobs' = jobs
          /\ broker' = broker
          /\ jobs'[route.job].status = "pending"
          /\ jobs'[route.job].celery_task_id = NULL
          /\ jobs'[route.job].error_message = NULL
          /\ jobs'[route.job].started_at = NULL_TS
          /\ jobs'[route.job].completed_at = NULL_TS]_vars

\* The only request so far created a job and was answered 500 because delay
\* raised (create_job itself returned).
C15_Witness ==
  /\ calls = 1
  /\ Len(jobs) = 1
  /\ raised = NULL
  /\ route.pc = "idle"
  /\ route.response = 500
  /\ broker = <<>>

\* C16: when celery.control.revoke raises, the cancel request is still answered
\* with success (200) and the job is stored as cancelled.
C16_RevokeFailureIsNotFatal ==
  [][celery_control_revoke(FALSE)
       => /\ route'.response = 200
          /\ jobs'[route.job].status = "cancelled"]_vars

\* C17: when the write of the audit row fails, create_job has still stored the
\* job as pending, and cancel_job has still stored it as cancelled with
\* completed_at set.
C17_AuditFailureKeepsMutation ==
  [][/\ \A p \in PlaybookIds, s \in ServerIds, u \in UserIds :
          create_job_audit_fails(p, s, u, "{}")
            => /\ Len(jobs') = Len(jobs) + 1
               /\ jobs'[Len(jobs')].status = "pending"
     /\ \A j \in DOMAIN jobs, u \in UserIds :
          cancel_job_audit_fails(j, u)
            => /\ jobs'[j].status = "cancelled"
               /\ jobs'[j].completed_at # NULL_TS]_vars

\* The ids of job j's rows in the table lg, in the order they were appended.
AppendOrder(lg, j) ==
  SelectSeq([i \in 1..Len(lg) |-> i], LAMBDA i : lg[i].job_id = j)

\* The highest line_number of job j's rows in the table lg (j has rows).
HighestLine(lg, j) ==
  CHOOSE m \in {lg[i].line_number : i \in {k \in DOMAIN lg : lg[k].job_id = j}} :
    \A i \in DOMAIN lg : lg[i].job_id = j => lg[i].line_number <= m

\* C18: after any sequence of add_job_log and add_job_logs_bulk calls the
\* line_numbers of one job's rows are pairwise distinct, and a full get_job_logs
\* of a job returns its rows in strictly increasing line_number order, which is
\* the order in which they were appended.
C18_ReadInAppendOrder ==
  [][/\ \A i, k \in DOMAIN logs' :
          (i # k /\ logs'[i].job_id = logs'[k].job_id)
            => logs'[i].line_number # logs'[k].line_number
     /\ \A j \in JobIds :
          get_job_logs(j, NONE, NONE)
            => /\ result'.rows = AppendOrder(logs, j)
               /\ \A a, b \in DOMAIN result'.rows :
                    a < b => logs[result'.rows[a]].line_number
                               < logs[result'.rows[b]].line_number]_vars

\* C19: add_job_log stores, for a job that has lines, the line_number one more
\* than the job's highest line_number so far, whatever number the caller passes
\* and whatever other jobs hold.
C19_AppendAssignsNextNumber ==
  [][\A j \in DOMAIN jobs, n \in LineNumbers, c \in Contents :
       (/\ \E i \in DOMAIN logs : logs[i].job_id = j
        /\ add_job_log(j, n, c, "INFO"))
         => logs'[Len(logs')].line_number = HighestLine(logs, j) + 1]_vars

\* What C20 says get_job_logs(j, start_line, limit) may return: the rows of job j
\* with line_number >= start_line (0 when absent), ascending, cut to the first
\* `limit` of them (all of them when limit is absent).
ReadWindow(j, start_line, limit) ==
  LET from == IF start_line = NONE THEN 0 ELSE start_line
      S == {i \in DOMAIN logs : logs[i].job_id = j /\ logs[i].line_number >= from}
  IN  {IF limit # NONE /\ limit < Len(q) THEN SubSeq(q, 1, limit) ELSE q :
         q \in OrderBy(S)}

\* C20: get_job_logs(job_id, start_line, limit) returns exactly the rows of that
\* job with line_number >= start_line, ascending, cut to the first limit rows,
\* for every start_line and limit, 0 included.
C20_ReadWindow ==
  [][\A j \in JobIds, s \in LineNumbers \cup {NONE}, l \in LineNumbers \cup {NONE} :
       get_job_logs(j, s, l) => result'.rows \in ReadWindow(j, s, l)]_vars

\* The table after add_job_log(j, l.line_number, l.content, 'INFO') for each
\* dictionary l of the list, in list order, starting from the table lg.
RECURSIVE AppendEach(_, _, _)
AppendEach(lg, j, lines) ==
  IF lines = <<>> THEN lg
  ELSE AppendEach(Append(lg, JobLog(j, Head(lines).line_number, Head(lines).content,
                                    "INFO")),
                  j, Tail(lines))

\* C21: add_job_logs_bulk(job, [l1..ln]) leaves job_logs as add_job_log(job, l1);
\* ...; add_job_log(job, ln) would: the new rows have consecutive line_numbers
\* in list order, all above the job's earlier line_numbers, so that a full read
\* returns them in list order after the earlier lines.
C21_BulkIsRepeatedAppend ==
  [][\A j \in DOMAIN jobs, b \in Batches :
       add_job_logs_bulk(j, b)
         => /\ logs' = AppendEach(logs, j, b)
            /\ \A i \in 1..Len(b) :
                 /\ i < Len(b) => logs'[Len(logs) + i + 1].line_number
                                    = logs'[Len(logs) + i].line_number + 1
                 /\ \A k \in DOMAIN logs :
                      logs[k].job_id = j
                        => logs[k].line_number < logs'[Len(logs) + i].line_number]_vars

\* The jobs in the scope of a statistics request: all jobs, or those of principal u.
InScope(u) == {k \in DOMAIN jobs \ deleted : u # NONE => jobs[k].user_id = u}

\* The number of jobs in the scope of u that are in status s.
InStatus(u, s) == Cardinality({k \in InScope(u) : jobs[k].status = s})

\* C22: a get_job_statistics call returns, for every status, the number of jobs
\* in that status (of the given principal only, when one is given), as total
\* the number of jobs in scope, and as success_rate the percentage
\* (total - failed) / total to two decimals (stats counts it in hundredths of a
\* percent), 0 when total is 0.
C22_Statistics ==
  [][\A u \in Principals \cup {NONE} :
       get_job_statistics(u)
         => LET total == Cardinality(InScope(u))
                exact == 100 * 100 * (total - InStatus(u, "failed"))
                got   == stats'.success_rate * total
            IN  /\ stats'.total = total
                /\ \A s \in Statuses : stats'[s] = InStatus(u, s)
                /\ IF total = 0 THEN stats'.success_rate = 0
                   ELSE /\ 2 * (got - exact) <= total
                        /\ 2 * (exact - got) <= total]_vars

\* Statistics of one principal were returned over a store that also holds a
\* job of somebody else, and the principal's job has failed.
C22_Witness ==
  /\ stats # None
  /\ stats.user_id # NONE
  /\ stats.total < Len(jobs)
  /\ stats.failed = stats.total
  /\ stats.total > 0
  /\ stats.success_rate = 0

\* C23: create_ticket_from_job raises ValueError and inserts no ticket when the
\* job does not exist; for an existing job, whatever its status, it returns
\* after inserting exactly one ticket, in status open, that references the job;
\* it changes no job either way.
C23_CreateFromJob ==
  [][\A j \in JobIds, u \in Principals :
       create_ticket_from_job(j, u, "medium")
         => /\ jobs' = jobs
            /\ IF j \in DOMAIN jobs \ deleted
                 THEN /\ raised' = NULL
                      /\ Len(tickets') = Len(tickets) + 1
                      /\ SubSeq(tickets', 1, Len(tickets)) = tickets
                      /\ tickets'[Len(tickets')].job_id = j
                      /\ tickets'[Len(tickets')].status = "open"
                 ELSE /\ raised' = "ValueError"
                      /\ tickets' = tickets]_vars

\* A ticket was just created from a job that had succeeded.
C23_Witness ==
  /\ Len(tickets) = 1
  /\ done = None
  /\ raised = NULL
  /\ jobs[tickets[1].job_id].status = "success"

\* Every log line and every ticket references a job that exists.
ReferencesExist ==
  /\ \A i \in DOMAIN logs : logs[i].job_id \in DOMAIN jobs \ deleted
  /\ \A i \in DOMAIN tickets : tickets[i].job_id \in DOMAIN jobs \ deleted

\* The rows of table that do not reference a job in gone.
Without(table, gone) == SelectSeq(table, LAMBDA row : row.job_id \notin gone)

\* C24: every log line and every ticket references an existing job, and a step
\* that deletes jobs (hard_delete_playbook, delete_user) deletes the log lines
\* and the tickets of the deleted jobs and no log line or ticket of another job.
C24_CascadeIntegrity ==
  [][/\ ReferencesExist'
     /\ deleted' # deleted
          => /\ logs' = Without(logs, deleted' \ deleted)
             /\ tickets' = Without(tickets, deleted' \ deleted)]_vars

\* The columns of a job that say what it runs, where, for whom, and its token.
Identity(row) ==
  <<row.playbook_id, row.server_id, row.user_id, row.job_id, row.extra_vars>>

\* A step that is a call, on job j, of one of the operations that take a job.
CallOn(j) ==
  \/ \E s \in Statuses, em \in ErrorMessages, tid \in TaskIds :
        update_job_status(j, s, em, tid)
  \/ \E u \in Principals : cancel_job(j, u)
  \/ \E n \in 1..MaxLogs, c \in Contents : add_job_log(j, n, c, "INFO")
  \/ \E u \in Principals : create_ticket_from_job(j, u, "medium")

\* C25: no step changes playbook_id, server_id, user_id, job_id or extra_vars of
\* a stored job; a call of update_job_status (with or without a
\* celery_task_id), cancel_job, add_job_log or create_ticket_from_job on one
\* job changes no column of another job, and get_job_statistics changes no job.
C25_IdentityImmutable ==
  [][/\ \A k \in DOMAIN jobs :
          k \in DOMAIN jobs' /\ Identity(jobs'[k]) = Identity(jobs[k])
     /\ \A j \in JobIds :
          CallOn(j) => \A k \in DOMAIN jobs \ {j} : jobs'[k] = jobs[k]
     /\ (\E u \in Principals \cup {NONE} : get_job_statistics(u)) => jobs' = jobs]_vars

\* One user's job was cancelled by the other user while a second job is stored.
C25_Witness ==
  /\ Len(jobs) = MaxJobs
  /\ done # None
  /\ done.op = "cancel_job"
  /\ done.call.user_id # jobs[done.call.job].user_id
  /\ jobs[done.call.job].status = "cancelled"

\* C30: a call of update_job_status or of cancel_job with the id of no stored
\* job raises ValueError and changes no table: no job, no audit row, no log
\* line and no ticket is added, changed or removed.
C30_MissingJobIsAnError ==
  [][\A j \in JobIds \ (DOMAIN jobs \ deleted) :
       (UpdateCall(j, Statuses) \/ \E u \in Principals : cancel_job(j, u))
         => /\ raised' = "ValueError"
            /\ UNCHANGED <<jobs, audit, logs, tickets, playbooks, servers>>]_vars

\* The only call made so far was refused because the store holds no job.
C30_Witness ==
  /\ calls = 1
  /\ jobs = <<>>
  /\ raised = "ValueError"
  /\ audit = <<>>
  /\ tickets = <<>>

\* The POST /jobs that created job j was just answered 500 because delay raised.
DispatchFailed(j) ==
  /\ j = Len(jobs)
  /\ route.pc = "idle"
  /\ route.response = 500
  /\ raised = NULL
  /\ Tasks(j) = {}
  /\ jobs[j].celery_task_id = NULL

\* Job j is pending and has no celery_task_id.
Stuck(j) ==
  /\ j \in DOMAIN jobs
  /\ jobs[j].status = "pending"
  /\ jobs[j].celery_task_id = NULL

\* C26: a job whose dispatch failed does not stay pending without a
\* celery_task_id for ever: eventually a retried dispatch gives it one, or it
\* is moved out of pending.
C26_NoJobStuckInPending ==
  \A j \in JobIds : [](DispatchFailed(j) => <>(~Stuck(j)))

JobEvents(j) ==
  {AuditLog(u, a, "job", j) : u \in Principals, a \in {"CREATE", "CANCEL", "DISPATCH_FAILED"}}

\* The step wrote exactly one audit row, an event of job j.
Emits(j) ==
  /\ Len(audit') = Len(audit) + 1
  /\ SubSeq(audit', 1, Len(audit)) = audit
  /\ audit'[Len(audit')] \in JobEvents(j)

\* C28: a POST /jobs that creates a job, a cancel that cancels one and a
\* dispatch that fails each write an audit row with resource_type job and the
\* job's id; a create or a cancel that raises writes none.
C28_AuditEvents ==
  [][/\ \A p \in PlaybookIds \cup {MissingId}, s \in ServerIds \cup {MissingId},
           u \in UserIds :
          jobs_bp_create_job(p, s, u)
            => IF raised' = NULL THEN Emits(Len(jobs')) ELSE audit' = audit
     /\ \A j \in JobIds, u \in UserIds :
          jobs_bp_cancel_job(j, u)
            => IF raised' = NULL THEN Emits(j) ELSE audit' = audit
     /\ execute_playbook_task_delay(FALSE) => Emits(route.job)]_vars

\* C29: delay() is called for a job that is stored and pending, so every task
\* message in the broker carries the id of a stored job, and the task id is
\* recorded on a stored job.
C29_StoredBeforeDispatch ==
  [][/\ (\E ok \in BOOLEAN : execute_playbook_task_delay(ok))
          => /\ route.job \in DOMAIN jobs \ deleted
             /\ jobs[route.job].status = "pending"
     /\ \A i \in DOMAIN broker' :
          broker'[i].kind = "task" => broker'[i].job \in DOMAIN jobs' \ deleted'
     /\ jobs_bp_create_job_record
          => /\ route.job \in DOMAIN jobs \ deleted
             /\ raised' = NULL
             /\ jobs'[route.job].celery_task_id = route.task]_vars

\* The task id of the second job was just recorded, its task being the only
\* one published for it.
C29_Witness ==
  /\ route.pc = "idle"
  /\ route.response = 201
  /\ Len(jobs) = MaxJobs
  /\ jobs[Len(jobs)].celery_task_id # NULL
  /\ Cardinality(Tasks(Len(jobs))) = 1
====
